---- MODULE Spec2Model ----
(***************************************************************************)
(* Model of the option pricing library: Option.py (Instrument validation), *)
(* Pricers/Pricer.py (shared construction), Pricers/BlackScholesPricer.py  *)
(* (closed form and its benchmark) and Pricers/MonteCarloPricer.py (Monte  *)
(* Carlo family and its benchmark).                                        *)
(*                                                                         *)
(* Spec follows one run from the construction of an option on; BenchSpec   *)
(* calls calculate and benchmark on a constructed pricer; LazyLoopSpec is  *)
(* the lazy calculate run to its return; ThreadsSpec runs two lazy         *)
(* calculate calls at once; AssignSpec assigns to a constructed option;    *)
(* FetchSpec calls the methods of a MarketDataFetcher.                     *)
(*                                                                         *)
(* Floats are fixed-point integers in units of 1/Scale; results that numpy *)
(* may produce outside the numbers (nan, inf, -inf) are explicit kinds.    *)
(* datetime values are integer clock ticks, TicksPerDay ticks to the day.  *)
(***************************************************************************)
EXTENDS Integers, Sequences, FiniteSets, TLC

VARIABLES now, instrument, pricer, last, pc, lazy, bench, global_rng, threads,
          fetcher

vars == <<now, instrument, pricer, last, pc, lazy, bench, global_rng, threads,
          fetcher>>

----------------------------------------------------------------------------
(* Bounds of the model *)

\* fixed-point resolution: the float x is the integer x * Scale
Scale == 1000
\* clock resolution
TicksPerDay == 2
\* datetime.today() ranges over StartNow..MaxNow
MaxNow == 3
\* the largest positive sample count passed to a Monte Carlo calculate
MaxSamples == 2
\* the largest explicit batch_size passed to the lazy calculate
MaxBatch == 2
\* the passes of the loop of benchmark that are followed
MaxPasses == 2
\* the trading days of the period a MarketDataFetcher asks for: 1..MaxDays
MaxDays == 2

(* Program constants *)
CONVENTION_YEAR_FRACTION == 365
DEFAULT_BATCH_SIZE == 100000
nb_iterations == 1000

StartNow == TicksPerDay

----------------------------------------------------------------------------
(* Float values *)

Num(x) == [k |-> "num", v |-> x]
NaN == [k |-> "nan", v |-> 0]
PInf == [k |-> "inf", v |-> 0]
NInf == [k |-> "ninf", v |-> 0]

IsNum(a) == a.k = "num"

Max(a, b) == IF a >= b THEN a ELSE b
Min(a, b) == IF a <= b THEN a ELSE b

\* product of two fixed-point numbers, rounded towards zero: like the float
\* product, a * (-b) = -(a * b)
Mul(a, b) == IF a * b >= 0 THEN (a * b) \div Scale ELSE -((-(a * b)) \div Scale)

\* a + b where a is any float value and b is a number
ExtAddNum(a, b) == IF IsNum(a) THEN Num(a.v + b) ELSE a

\* numpy float64 division a / den for a number den >= 0: division by zero
\* gives inf, -inf or nan (with a warning), never an exception
ExtDiv(a, den) ==
    IF den = 0
    THEN CASE a.k = "nan" -> NaN
           [] a.k = "inf" -> PInf
           [] a.k = "ninf" -> NInf
           [] a.k = "num" /\ a.v > 0 -> PInf
           [] a.k = "num" /\ a.v < 0 -> NInf
           [] OTHER -> NaN
    ELSE IF IsNum(a) THEN Num((a.v * Scale) \div den) ELSE a

RECURSIVE ISqrt(_, _, _)
\* the largest s in lo..hi with s * s <= n
ISqrt(n, lo, hi) ==
    IF lo >= hi THEN lo
    ELSE LET mid == (lo + hi + 1) \div 2
         IN IF mid * mid <= n THEN ISqrt(n, mid, hi) ELSE ISqrt(n, lo, mid - 1)

\* numpy.sqrt of a number x >= 0
Sqrt(x) == ISqrt(x * Scale, 0, x + Scale)

RECURSIVE ExpSeries(_, _, _, _)
ExpSeries(x, k, term, acc) ==
    IF k > 8 \/ term = 0 THEN acc
    ELSE LET t == (term * x) \div (k * Scale)
         IN ExpSeries(x, k + 1, t, acc + t)

\* numpy.exp of a number
Exp(x) == ExpSeries(x, 1, Scale, Scale)

\* natural logarithm of a number x > 0: 2 * atanh((x - 1) / (x + 1))
Ln(x) ==
    LET y == ((x - Scale) * Scale) \div (x + Scale)
        y2 == Mul(y, y)
        y3 == Mul(y2, y)
        y5 == Mul(y3, y2)
        y7 == Mul(y5, y2)
    IN 2 * (y + y3 \div 3 + y5 \div 5 + y7 \div 7)

\* standard normal cdf on x >= 0, from its values at multiples of 0.5
PhiTable == <<5000, 6915, 8413, 9332, 9772, 9938, 9987, 9998, 10000>>

PhiPos(x) ==
    LET step == Scale \div 2
        i == x \div step
    IN IF i + 2 > Len(PhiTable) THEN Scale
       ELSE LET lo == (PhiTable[i + 1] * Scale) \div 10000
                hi == (PhiTable[i + 2] * Scale) \div 10000
            IN lo + ((hi - lo) * (x - i * step)) \div step

\* scipy.stats.norm.cdf
NormCdf(a) ==
    CASE a.k = "nan" -> NaN
      [] a.k = "inf" -> Num(Scale)
      [] a.k = "ninf" -> Num(0)
      [] OTHER -> IF a.v >= 0 THEN Num(PhiPos(a.v)) ELSE Num(Scale - PhiPos(-a.v))

ExtNeg(a) ==
    CASE a.k = "inf" -> NInf
      [] a.k = "ninf" -> PInf
      [] a.k = "num" -> Num(-a.v)
      [] OTHER -> NaN

----------------------------------------------------------------------------
(* Inputs *)

Unit == Scale
Cents(x) == (x * Scale) \div 100

OptionClasses == {"Call", "Put", "Option"}
UnderlyingPrices == {-Unit, 0, 100 * Unit}
Rates == {0, Cents(10)}
Volatilities == {-Cents(10), 0, Cents(20)}
Strikes == {0, 100 * Unit, 150 * Unit}
Dividends == {-Cents(1), 0, Cents(4)}

\* a maturity is given as a datetime (v: its tick) or as a string (v: the day
\* the text "MM/DD/YYYY" names, BadDate for a text strptime cannot parse)
BadDate == -1
MaturityTicks == {StartNow - 1, StartNow + 1, StartNow + TicksPerDay,
                  StartNow + 365 * TicksPerDay}
MaturityDays == {BadDate, 1, 2, 366}
Maturities ==
    [form : {"datetime"}, v : MaturityTicks] \cup [form : {"str"}, v : MaturityDays]

NoInstrument == [cls |-> "None"]
NoPricer == [cls |-> "None"]
\* an object that is no Option at all
Unrelated == [cls |-> "object"]

PricerClasses ==
    {"BlackScholesPricer", "MonteCarloPricerClassic", "MonteCarloPricerQMC",
     "MonteCarloPricerAntithetic", "MonteCarloPricerLazy"}

\* the standard normal variates a draw can give
Draws == {-Unit, Unit}
RECURSIVE VanDerCorput(_, _)
\* the i-th point of the one-dimensional base-2 low-discrepancy sequence
VanDerCorput(i, half) ==
    IF i = 0 THEN 0 ELSE (i % 2) * half + VanDerCorput(i \div 2, half \div 2)

\* the scramblings a Sobol(d=1, scramble=True) sampler can start from
Scrambles == {Cents(16), Cents(34)}

\* sampler.random(n).flatten() under one scrambling: n points of (0, 1)
SobolRandom(scramble, n) ==
    [i \in 1 .. n |-> (VanDerCorput(i - 1, Scale \div 2) + scramble) % Scale]

SampleCounts == -1 .. MaxSamples
BatchSizes == (-1 .. MaxBatch) \cup {DEFAULT_BATCH_SIZE}

\* the sequences of length n over S
SeqsOf(S, n) == [1 .. n -> S]

NoLazy == [nb_samples |-> 0, batch_size |-> 0, drift |-> 0, sum_payoff |-> 0,
           count_draws |-> 0, batches |-> 0, draws |-> <<>>]

\* benchmark(nb_samples) as the code declares it, and the same call with the
\* keyword argument iterations that its signature does not have
IterationArgs == {[given |-> FALSE, v |-> nb_iterations], [given |-> TRUE, v |-> 1]}

\* round(mean(durations), 6), a wall-clock reading, in microseconds
Durations == {1, 2}

NoBench == [nb_samples |-> 0, calls |-> 0, prices |-> <<>>]

\* the callers that may run a calculate at the same time
Threads == {1, 2}

NoThreads == [t \in Threads |-> [pc |-> "none"]]

\* range(nb_iterations), cut to the passes that are followed
LoopPasses == Min(nb_iterations, MaxPasses)

----------------------------------------------------------------------------
(* Outcomes of a call *)

Returned(v) == [status |-> "ok", exc |-> "", value |-> v]
Raised(e) == [status |-> "error", exc |-> e, value |-> NaN]

\* what the last call was: its arguments, its outcome and, for a constructor,
\* the clock when it ran (calculate never reads the clock: 0)
Called(op, args, out) ==
    [op |-> op, args |-> args, at |-> IF op = "calculate" THEN 0 ELSE now,
     status |-> out.status, exc |-> out.exc, value |-> out.value]

----------------------------------------------------------------------------
(* Option.py *)

\* datetime.strptime(text, '%m/%d/%Y'): midnight of the day the text names
Strptime(day) == day * TicksPerDay

\* __post_init__ without its first assertion
PostInitErrorWithoutVolatility(a, today) ==
    CASE ~(a.underlying_price >= 0) -> "AssertionError: Underlying price must be positive"
      [] ~(a.dividend >= 0) -> "AssertionError: Dividend must be positive"
      [] a.maturity.form = "str" /\ a.maturity.v = BadDate -> "ValueError"
      [] a.maturity.form = "str" /\ ~(Strptime(a.maturity.v) > today) ->
            "AssertionError: Maturity date must be greater than calculation date"
      [] OTHER -> ""

\* the checks of Option.__post_init__, in order; "" when construction succeeds
PostInitError(a, today) ==
    CASE ~(a.volatility >= 0) -> "AssertionError: Volatility must be positive"
      [] ~(a.underlying_price >= 0) -> "AssertionError: Underlying price must be positive"
      [] ~(a.dividend >= 0) -> "AssertionError: Dividend must be positive"
      [] a.maturity.form = "str" /\ a.maturity.v = BadDate -> "ValueError"
      [] a.maturity.form = "str" /\ ~(Strptime(a.maturity.v) > today) ->
            "AssertionError: Maturity date must be greater than calculation date"
      [] OTHER -> ""

\* the object __post_init__ leaves: maturity is a datetime from then on
PostInit(a) ==
    [cls |-> a.cls,
     underlying_price |-> a.underlying_price,
     rate |-> a.rate,
     volatility |-> a.volatility,
     maturity |-> IF a.maturity.form = "str" THEN Strptime(a.maturity.v) ELSE a.maturity.v,
     strike |-> a.strike,
     dividend |-> a.dividend]

OptionArgs ==
    [cls : OptionClasses, underlying_price : UnderlyingPrices, rate : Rates,
     volatility : Volatilities, maturity : Maturities, strike : Strikes,
     dividend : Dividends]

\* Call(...), Put(...) or Option(...): the one instrument of a run, as in main.py;
\* a failed construction ends the run
ConstructOption ==
    /\ pc = "idle"
    /\ last.op = "none"
    /\ \E a \in OptionArgs :
         LET err == PostInitError(a, now)
         IN /\ instrument' = IF err = "" THEN PostInit(a) ELSE instrument
            /\ last' = Called("Option", a, IF err = "" THEN Returned(NaN) ELSE Raised(err))
    /\ UNCHANGED <<now, pricer, pc, lazy, bench, global_rng, threads, fetcher>>

----------------------------------------------------------------------------
(* Pricers/Pricer.py *)

\* (maturity - calculation_date).days: whole days, rounded down
Days(maturity, calculation_date) == (maturity - calculation_date) \div TicksPerDay

IsCallOrPut(obj) == obj.cls = "Call" \/ obj.cls = "Put"

\* the two assertions of Pricer.__init__, in order
PricerInitError(obj, calculation_date) ==
    CASE ~IsCallOrPut(obj) -> "AssertionError: not recognized as a Call or Put option"
      [] ~(obj.maturity > calculation_date) ->
            "AssertionError: Maturity date must be greater than calculation date"
      [] OTHER -> ""

\* __init__ binding the Call payoff whatever the instrument
BindPayoffAlwaysCall(obj) == "call"

\* the payoff lambda bound by Pricer.__init__
BindPayoff(obj) == IF obj.cls = "Call" THEN "call" ELSE "put"

PricerInit(cls, obj, calculation_date) ==
    [cls |-> cls,
     instrument |-> obj,
     S |-> obj.underlying_price,
     K |-> obj.strike,
     r |-> obj.rate,
     q |-> obj.dividend,
     sigma |-> obj.volatility,
     T |-> (Days(obj.maturity, calculation_date) * Scale) \div CONVENTION_YEAR_FRACTION,
     payoff |-> BindPayoff(obj)]

\* self.payoff(S_T)
Payoff(p, S_T) ==
    IF p.payoff = "call" THEN Max(S_T - p.K, 0) ELSE Max(p.K - S_T, 0)

\* cls(obj) for one of the concrete pricer classes
ConstructPricer ==
    /\ pc = "idle"
    /\ \E cls \in PricerClasses, obj \in {instrument, Unrelated} :
         LET err == PricerInitError(obj, now)
         IN /\ obj.cls # "None"
            /\ pricer' = IF err = "" THEN PricerInit(cls, obj, now) ELSE pricer
            /\ last' = Called("Pricer", [cls |-> cls, instrument |-> obj],
                               IF err = "" THEN Returned(NaN) ELSE Raised(err))
    /\ UNCHANGED <<now, instrument, pc, lazy, bench, global_rng,
                 threads, fetcher>>

RECURSIVE SumSeq(_)
SumSeq(s) == IF s = <<>> THEN 0 ELSE Head(s) + SumSeq(Tail(s))

\* numpy.mean of an array of numbers: nan (with a warning) when it is empty
Mean(s) == IF Len(s) = 0 THEN NaN ELSE Num(SumSeq(s) \div Len(s))

----------------------------------------------------------------------------
(* Pricers/BlackScholesPricer.py *)

\* log(self.S/self.K) for K # 0: numpy.log gives -inf at 0, nan below it
LogRatio(p) ==
    CASE p.S = 0 -> NInf
      [] (p.S > 0) # (p.K > 0) -> NaN
      [] OTHER -> Num(Ln((p.S * Scale) \div p.K))

\* self.sigma*sqrt(self.T)
SigmaSqrtT(p) == Mul(p.sigma, Sqrt(p.T))

\* d1 as line 21 computes it
D1(p) ==
    ExtDiv(ExtAddNum(LogRatio(p),
                     Mul(p.r, p.T) + Mul(Mul(Scale \div 2, p.T), Mul(p.sigma, p.sigma))),
           SigmaSqrtT(p))

\* d2 as line 22 computes it
D2(p) == ExtAddNum(D1(p), -SigmaSqrtT(p))

\* a * Phi(x) - b * Phi(y) for numbers a, b: nan as soon as one cdf is nan
Legs(a, cdf1, b, cdf2) ==
    IF IsNum(cdf1) /\ IsNum(cdf2) THEN Num((a * cdf1.v - b * cdf2.v) \div Scale) ELSE NaN

\* BlackScholesPricer.calculate
BlackScholesCalculate(p) ==
    IF p.K = 0 THEN Raised("ZeroDivisionError")
    ELSE LET spot == Mul(p.S, Exp(-Mul(p.q, p.T)))
             disc == Mul(p.K, Exp(-Mul(p.r, p.T)))
         IN IF p.instrument.cls = "Call"
            THEN Returned(Legs(spot, NormCdf(D1(p)), disc, NormCdf(D2(p))))
            ELSE Returned(Legs(-spot, NormCdf(ExtNeg(D1(p))),
                               -disc, NormCdf(ExtNeg(D2(p)))))

CalculateBlackScholes ==
    /\ pc = "idle"
    /\ pricer.cls = "BlackScholesPricer"
    /\ last' = Called("calculate", <<>>, BlackScholesCalculate(pricer))
    /\ UNCHANGED <<now, instrument, pricer, pc, lazy, bench,
                 global_rng, threads, fetcher>>

----------------------------------------------------------------------------
(* Pricers/MonteCarloPricer.py *)

\* (self.r - self.q - 0.5 * self.sigma**2) * self.T
Drift(p) == Mul(p.r - p.q - Mul(Scale \div 2, Mul(p.sigma, p.sigma)), p.T)

\* self.S * np.exp(drift + self.sigma * W_T) with W_T = np.sqrt(self.T) * z
TerminalPrice(p, z) == Mul(p.S, Exp(Drift(p) + Mul(p.sigma, Mul(Sqrt(p.T), z))))

\* np.exp(-self.r * self.T)
Discount(p) == Exp(-Mul(p.r, p.T))

\* np.random.normal(size=n), scipy's Sobol.random(n): no array has a negative size
SizeError(n) == n < 0

\* MonteCarloPricerClassic.calculate on the normal draws Z
ClassicCalculate(p, Z) ==
    Returned(Mean([i \in 1 .. Len(Z) |->
                     Mul(Payoff(p, TerminalPrice(p, Z[i])), Discount(p))]))

\* scipy.stats.norm.ppf on a point of (0, 1), to a tenth
NormPpf(u) ==
    CHOOSE x \in {(i * Scale) \div 10 : i \in -40 .. 40} :
        /\ NormCdf(Num(x)).v >= u
        /\ \A y \in {(i * Scale) \div 10 : i \in -40 .. 40} :
             NormCdf(Num(y)).v >= u => x <= y

\* MonteCarloPricerQMC.calculate on the Sobol points U and the normal draws Z:
\* line 77 builds W_T from norm.ppf(U), line 79 assigns W_T again from Z
QMCCalculate(p, U, Z) ==
    LET G == [i \in 1 .. Len(U) |-> NormPpf(U[i])]
        W_T == [i \in 1 .. Len(Z) |-> Z[i]]
    IN Returned(Mean([i \in 1 .. Len(W_T) |->
                        Mul(Payoff(p, TerminalPrice(p, W_T[i])), Discount(p))]))

\* an antithetic calculate that leaves the mirrored path out
AntitheticWithoutMirror(p, Z) ==
    Returned(Mean([i \in 1 .. Len(Z) |->
                     Mul(Payoff(p, TerminalPrice(p, Z[i])), Discount(p))]))

\* MonteCarloPricerAntithetic.calculate on the normal draws Z
AntitheticCalculate(p, Z) ==
    Returned(Mean([i \in 1 .. Len(Z) |->
                     Mul((Payoff(p, TerminalPrice(p, Z[i]))
                          + Payoff(p, TerminalPrice(p, -Z[i]))) \div 2,
                         Discount(p))]))

CalculateClassic ==
    /\ pc = "idle"
    /\ pricer.cls = "MonteCarloPricerClassic"
    /\ \E n \in SampleCounts :
         IF SizeError(n)
         THEN last' = Called("calculate", [nb_samples |-> n, Z |-> <<>>],
                             Raised("ValueError"))
         ELSE \E Z \in SeqsOf(Draws, n) :
                last' = Called("calculate", [nb_samples |-> n, Z |-> Z],
                               ClassicCalculate(pricer, Z))
    /\ UNCHANGED <<now, instrument, pricer, pc, lazy, bench,
                 global_rng, threads, fetcher>>

CalculateQMC ==
    /\ pc = "idle"
    /\ pricer.cls = "MonteCarloPricerQMC"
    /\ \E n \in SampleCounts :
         IF SizeError(n)
         THEN last' = Called("calculate", [nb_samples |-> n, U |-> <<>>, Z |-> <<>>],
                             Raised("ValueError"))
         ELSE \E scramble \in Scrambles, Z \in SeqsOf(Draws, n) :
                LET U == SobolRandom(scramble, n)
                IN last' = Called("calculate", [nb_samples |-> n, U |-> U, Z |-> Z],
                                  QMCCalculate(pricer, U, Z))
    /\ UNCHANGED <<now, instrument, pricer, pc, lazy, bench,
                 global_rng, threads, fetcher>>

CalculateAntithetic ==
    /\ pc = "idle"
    /\ pricer.cls = "MonteCarloPricerAntithetic"
    /\ \E n \in SampleCounts :
         IF SizeError(n)
         THEN last' = Called("calculate", [nb_samples |-> n, Z |-> <<>>],
                             Raised("ValueError"))
         ELSE \E Z \in SeqsOf(Draws, n) :
                last' = Called("calculate", [nb_samples |-> n, Z |-> Z],
                               AntitheticCalculate(pricer, Z))
    /\ UNCHANGED <<now, instrument, pricer, pc, lazy, bench,
                 global_rng, threads, fetcher>>

\* S_T of the lazy calculate (line 138) on one draw z
LazyTerminalPrice(p, z) ==
    Mul(p.S, Exp(Drift(p) + Mul(Mul(p.sigma, Sqrt(p.T)), z)))

\* (sum of payoff(S_T(z_i)) over i) / n, discounted by e^(-rT)
DiscountedMean(p, Z) ==
    Num(Mul(SumSeq([i \in 1 .. Len(Z) |-> Payoff(p, LazyTerminalPrice(p, Z[i]))])
              \div Len(Z),
            Discount(p)))

(* MonteCarloPricerLazy.calculate, one action per stretch of its loop *)

\* lines 113-127: drift, the generator (nothing is drawn yet), the two counters
LazyEnter ==
    /\ pc = "idle"
    /\ pricer.cls = "MonteCarloPricerLazy"
    /\ \E n \in SampleCounts, b \in BatchSizes :
         /\ lazy' = [nb_samples |-> n, batch_size |-> b, drift |-> Drift(pricer),
                     sum_payoff |-> 0, count_draws |-> 0, batches |-> 0, draws |-> <<>>]
         /\ last' = Called("calculate",
                            [nb_samples |-> n, batch_size |-> b, Z |-> <<>>],
                            [status |-> "running", exc |-> "", value |-> NaN])
    /\ pc' = "loop"
    /\ UNCHANGED <<now, instrument, pricer, bench, global_rng,
                 threads, fetcher>>

\* a batch that is never cut to the samples still needed
BatchLenUncut(l) == Min(l.batch_size, MaxBatch)

\* a batch cut to its first draw
BatchLenOne(l) == Min(l.batch_size, 1)

\* a batch cut to nothing
BatchLenNone(l) == Min(l.batch_size, 0)

\* len(G) after lines 131-136: the batch, cut to the samples still needed
BatchLen(l) == Min(l.batch_size, l.nb_samples - l.count_draws)

\* lines 129-141, one pass of the loop: next(gen) raises on a negative size
LazyBatch ==
    /\ pc = "loop"
    /\ lazy.count_draws < lazy.nb_samples
    /\ IF SizeError(lazy.batch_size)
       THEN /\ last' = Called("calculate", last.args, Raised("ValueError"))
            /\ pc' = "idle"
            /\ lazy' = NoLazy
       ELSE \E G \in SeqsOf(Draws, BatchLen(lazy)) :
              /\ lazy' = [lazy EXCEPT
                            !.sum_payoff = @ + SumSeq([i \in 1 .. Len(G) |->
                                 Payoff(pricer,
                                        Mul(pricer.S,
                                            Exp(lazy.drift
                                                + Mul(Mul(pricer.sigma, Sqrt(pricer.T)),
                                                      G[i]))))]),
                            !.count_draws = @ + Len(G),
                            !.batches = Min(@ + 1, MaxSamples + 1),
                            !.draws = @ \o G]
              /\ UNCHANGED <<last, pc>>
    /\ UNCHANGED <<now, instrument, pricer, bench, global_rng,
                 threads, fetcher>>

\* line 143, where the call's locals end (Z: the draws the call consumed, in
\* order, kept for the properties): sum_payoff is still the Python float
\* 0.0 when the loop never ran, and a Python float divided by the integer 0 raises
LazyReturn ==
    /\ pc = "loop"
    /\ ~(lazy.count_draws < lazy.nb_samples)
    /\ last' = Called("calculate", [last.args EXCEPT !.Z = lazy.draws],
                      IF lazy.nb_samples = 0 THEN Raised("ZeroDivisionError")
                      ELSE Returned(Num(Mul(lazy.sum_payoff \div lazy.nb_samples,
                                            Discount(pricer)))))
    /\ pc' = "idle"
    /\ lazy' = NoLazy
    /\ UNCHANGED <<now, instrument, pricer, bench, global_rng,
                 threads, fetcher>>

----------------------------------------------------------------------------
(* benchmark of BlackScholesPricer and of MonteCarloPricer *)

\* the quotient a / b of integers, b > 0, rounded to the nearest integer, a tie
\* to the even one
RoundDiv(a, b) ==
    LET q == a \div b
        r == a % b
    IN IF 2 * r < b THEN q
       ELSE IF 2 * r > b THEN q + 1
       ELSE IF q % 2 = 0 THEN q ELSE q + 1

\* round(x, 6) of the float num / den: the result counts millionths; nan and
\* the infinities round to themselves
Round6(num, den) ==
    LET d == den * Scale
        thousandths == (num % d) * 1000
    IN Num((num \div d) * 1000000 + (thousandths \div d) * 1000
           + RoundDiv((thousandths % d) * 1000, d))

\* round(price, 6), BlackScholesPricer.py line 51
RoundPrice(price) == IF IsNum(price) THEN Round6(price.v, 1) ELSE price

\* round(float(np.mean(prices)), 6), MonteCarloPricer.py line 45
RoundMeanPrice(prices) ==
    IF \A i \in 1 .. Len(prices) : IsNum(prices[i])
    THEN Round6(SumSeq([i \in 1 .. Len(prices) |-> prices[i].v]), Len(prices))
    ELSE NaN

\* the arguments benchmark passes to calculate: self.calculate() in
\* BlackScholesPricer.py line 48, self.calculate(nb_samples) in
\* MonteCarloPricer.py line 42
CalculateArgs(p, nb_samples) ==
    IF p.cls = "BlackScholesPricer" THEN <<>> ELSE <<nb_samples>>

\* the normal draws one calculate(*a) consumes
NbDraws(a) == IF a = <<>> THEN 0 ELSE Max(a[1], 0)

\* MonteCarloPricerLazy.calculate(nb_samples) as one step: the default
\* batch_size is no less than nb_samples, the loop makes one pass at most
LazyCalculate(p, nb_samples, G) ==
    IF nb_samples = 0 THEN Raised("ZeroDivisionError")
    ELSE IF nb_samples < 0 THEN Returned(Num(0))
    ELSE Returned(DiscountedMean(p, G))

\* self.calculate(*a) as one step, on the Sobol points U and normal draws Z
Calculate(p, a, U, Z) ==
    CASE p.cls = "BlackScholesPricer" -> BlackScholesCalculate(p)
      [] p.cls = "MonteCarloPricerClassic" ->
            IF SizeError(a[1]) THEN Raised("ValueError") ELSE ClassicCalculate(p, Z)
      [] p.cls = "MonteCarloPricerQMC" ->
            IF SizeError(a[1]) THEN Raised("ValueError") ELSE QMCCalculate(p, U, Z)
      [] p.cls = "MonteCarloPricerAntithetic" ->
            IF SizeError(a[1]) THEN Raised("ValueError")
            ELSE AntitheticCalculate(p, Z)
      [] p.cls = "MonteCarloPricerLazy" -> LazyCalculate(p, a[1], Z)

\* a benchmark that keeps its sample count on the pricer it measures
BenchmarkEnterKeepingCount ==
    /\ pc = "idle"
    /\ pricer.cls # "None"
    /\ \E n \in SampleCounts :
         /\ pricer' = [pricer EXCEPT !.S = n]
         /\ last' = Called("benchmark",
                           [nb_samples |-> n, iterations |-> [given |-> TRUE, v |-> 1],
                            calls |-> 0, passed |-> <<>>, prices |-> <<>>,
                            mean_duration |-> 0],
                           Raised("TypeError"))
    /\ UNCHANGED <<now, instrument, pc, lazy, bench, global_rng,
                 threads, fetcher>>

\* the call and the lines before the loop; a keyword argument the signature
\* does not declare is a TypeError before the body runs
BenchmarkEnter ==
    /\ pc = "idle"
    /\ pricer.cls # "None"
    /\ \E n \in SampleCounts, it \in IterationArgs :
         LET args == [nb_samples |-> n, iterations |-> it, calls |-> 0,
                      passed |-> <<>>, prices |-> <<>>, mean_duration |-> 0]
         IN IF it.given
            THEN /\ last' = Called("benchmark", args, Raised("TypeError"))
                 /\ UNCHANGED <<pc, bench, global_rng, threads>>
            ELSE /\ last' = Called("benchmark", args,
                                   [status |-> "running", exc |-> "", value |-> NaN])
                 /\ pc' = "bench"
                 /\ bench' = [nb_samples |-> n, calls |-> 0, prices |-> <<>>]
    /\ UNCHANGED <<now, instrument, pricer, lazy, global_rng,
                 threads, fetcher>>

\* one pass of the loop: an exception of calculate ends benchmark
BenchmarkIteration ==
    /\ pc = "bench"
    /\ Len(bench.prices) < LoopPasses
    /\ LET a == CalculateArgs(pricer, bench.nb_samples)
       IN \E scramble \in Scrambles, Z \in SeqsOf(Draws, NbDraws(a)) :
            LET out == Calculate(pricer, a, SobolRandom(scramble, NbDraws(a)), Z)
            IN IF out.status = "error"
               THEN /\ last' = Called("benchmark",
                                      [last.args EXCEPT !.calls = bench.calls + 1,
                                                        !.passed = a,
                                                        !.prices = bench.prices],
                                      out)
                    /\ pc' = "idle"
                    /\ bench' = NoBench
               ELSE /\ bench' = [bench EXCEPT !.calls = @ + 1,
                                              !.prices = Append(@, out.value)]
                    /\ last' = [last EXCEPT !.args.passed = a]
                    /\ UNCHANGED pc
    /\ UNCHANGED <<now, instrument, pricer, lazy, global_rng,
                 threads, fetcher>>

\* the return: the last price of the closed form, the mean price of Monte Carlo
BenchmarkReturn ==
    /\ pc = "bench"
    /\ ~(Len(bench.prices) < LoopPasses)
    /\ \E d \in Durations :
         last' = Called("benchmark",
                        [last.args EXCEPT !.calls = bench.calls,
                                          !.prices = bench.prices,
                                          !.mean_duration = d],
                        Returned(IF pricer.cls = "BlackScholesPricer"
                                 THEN RoundPrice(bench.prices[Len(bench.prices)])
                                 ELSE RoundMeanPrice(bench.prices)))
    /\ pc' = "idle"
    /\ bench' = NoBench
    /\ UNCHANGED <<now, instrument, pricer, lazy, global_rng,
                 threads, fetcher>>

----------------------------------------------------------------------------
(* RiskFreeCurve/MarketDataFetcher.py *)

\* None, as the value of _data before any download and as a download result
None == [kind |-> "None"]
\* _last_date = None
NoDate == 0

\* the tickers the fetcher is constructed with and the closes, in percent,
\* that the market may quote for one of them
Tickers == <<"^IRX", "^TNX">>
Percents == {Cents(400), Cents(425), Cents(450)}
Rows == SeqsOf(Percents, Len(Tickers))

\* a DataFrame of closes: index holds its dates in increasing order and
\* Close[k] is the row of the date index[k]
Frame(index, Close) == [kind |-> "DataFrame", index |-> index, Close |-> Close]
Indexes ==
    UNION {{i \in SeqsOf(1 .. MaxDays, n) :
              \A k \in 1 .. n - 1 : i[k] < i[k + 1]} : n \in 0 .. MaxDays}
Frames == UNION {{Frame(i, c) : c \in SeqsOf(Rows, Len(i))} : i \in Indexes}

\* what yf.download may hand back for the period asked for
Downloads == {None} \cup Frames

\* DataFrame.empty
Empty(d) == Len(d.index) = 0

\* the object __init__ leaves; fetched is the outcome of the most recent call
\* of fetch_data ("never" before the first)
NewFetcher == [data |-> None, last_date |-> NoDate, fetched |-> "never"]

fetch_data ==
    /\ pc = "idle"
    /\ \E d \in Downloads :
         LET retrieved == d # None /\ ~Empty(d)
         IN /\ fetcher' =
                 [data |-> d,
                  last_date |-> IF retrieved THEN d.index[Len(d.index)]
                                ELSE fetcher.last_date,
                  fetched |-> IF retrieved THEN "ok" ELSE "ValueError"]
            /\ last' = Called("fetch_data", [download |-> d],
                              IF retrieved THEN Returned(None)
                              ELSE Raised("ValueError"))
    /\ UNCHANGED <<now, instrument, pricer, pc, lazy, bench, global_rng,
                   threads>>

\* the maturities in years that get_latest_rates returns
maturities == <<Cents(25), 5 * Unit, 10 * Unit, 30 * Unit>>

\* DataFrame.loc[date, tickers] on the closes: the row of that date
Loc(d, date) == d.Close[CHOOSE k \in 1 .. Len(d.index) : d.index[k] = date]

\* the call of get_latest_rates on the fetcher f: the assertion, then the
\* lookup of _last_date in the index, which raises KeyError for a date the
\* index does not hold (None included), then the conversion to decimal
LatestRates(f) ==
    IF f.data = None THEN Raised("AssertionError")
    ELSE IF \A k \in 1 .. Len(f.data.index) : f.data.index[k] # f.last_date
         THEN Raised("KeyError")
         ELSE LET last_rates_percent == Loc(f.data, f.last_date)
              IN Returned([maturities |-> maturities,
                           rates |-> [t \in 1 .. Len(Tickers) |->
                                        last_rates_percent[t] \div 100]])

get_latest_rates ==
    /\ pc = "idle"
    /\ last' = Called("get_latest_rates", fetcher, LatestRates(fetcher))
    /\ UNCHANGED <<now, instrument, pricer, pc, lazy, bench, global_rng,
                   threads, fetcher>>

\* a constructed MarketDataFetcher and the calls of its two methods, in any
\* order and any number of times
FetchInit ==
    /\ now = StartNow
    /\ instrument = NoInstrument
    /\ pricer = NoPricer
    /\ last = [op |-> "none", args |-> <<>>, at |-> StartNow,
               status |-> "ok", exc |-> "", value |-> NaN]
    /\ pc = "idle"
    /\ lazy = NoLazy
    /\ bench = NoBench
    /\ global_rng = <<>>
    /\ threads = NoThreads
    /\ fetcher = NewFetcher

FetchNext ==
    \/ fetch_data
    \/ get_latest_rates

FetchSpec == FetchInit /\ [][FetchNext]_vars

----------------------------------------------------------------------------

\* the clock moves on between calls
Tick ==
    /\ pc = "idle"
    /\ now < MaxNow
    /\ now' = now + 1
    /\ UNCHANGED <<instrument, pricer, last, pc, lazy, bench,
                 global_rng, threads, fetcher>>

----------------------------------------------------------------------------

Init ==
    /\ now = StartNow
    /\ instrument = NoInstrument
    /\ pricer = NoPricer
    /\ last = [op |-> "none", args |-> <<>>, at |-> StartNow,
               status |-> "ok", exc |-> "", value |-> NaN]
    /\ pc = "idle"
    /\ lazy = NoLazy
    /\ bench = NoBench
    /\ global_rng = <<>>
    /\ threads = NoThreads
    /\ fetcher = NewFetcher

Next ==
    \/ ConstructOption
    \/ ConstructPricer
    \/ CalculateBlackScholes
    \/ CalculateClassic
    \/ CalculateQMC
    \/ CalculateAntithetic
    \/ LazyEnter
    \/ LazyBatch
    \/ LazyReturn
    \/ Tick

Spec == Init /\ [][Next]_vars

----------------------------------------------------------------------------
(* Pricers at work: calculate and benchmark called in any order on a Pricer *)
(* constructed on a valid option a year from its maturity                   *)

BenchOptions ==
    {PostInit(a) : a \in {b \in OptionArgs :
                            /\ b.cls \in {"Call", "Put"}
                            /\ b.underlying_price = 100 * Unit
                            /\ b.rate = Cents(10)
                            /\ b.volatility >= 0
                            /\ b.maturity = [form |-> "datetime",
                                             v |-> StartNow + 365 * TicksPerDay]
                            /\ b.strike = 100 * Unit
                            /\ b.dividend = Cents(4)}}

BenchInit ==
    /\ now = StartNow
    /\ instrument \in BenchOptions
    /\ \E cls \in PricerClasses : pricer = PricerInit(cls, instrument, StartNow)
    /\ last = [op |-> "none", args |-> <<>>, at |-> StartNow,
               status |-> "ok", exc |-> "", value |-> NaN]
    /\ pc = "idle"
    /\ lazy = NoLazy
    /\ bench = NoBench
    /\ global_rng = <<>>
    /\ threads = NoThreads
    /\ fetcher = NewFetcher

BenchNext ==
    \/ CalculateBlackScholes
    \/ CalculateClassic
    \/ CalculateQMC
    \/ CalculateAntithetic
    \/ LazyEnter
    \/ LazyBatch
    \/ LazyReturn
    \/ BenchmarkEnter
    \/ BenchmarkIteration
    \/ BenchmarkReturn

BenchSpec == BenchInit /\ [][BenchNext]_vars

\* calls of the lazy calculate, one after the other and none left halfway: the
\* loop takes its next pass and the return statement is reached
LazyNext ==
    \/ LazyEnter
    \/ LazyBatch
    \/ LazyReturn

LazyLoopSpec ==
    BenchInit /\ [][LazyNext]_vars /\ WF_vars(LazyBatch) /\ WF_vars(LazyReturn)

----------------------------------------------------------------------------
(* Concurrent callers: each thread owns a MonteCarloPricerLazy and calls its *)
(* calculate once. np.random.normal is the method of the one generator of    *)
(* the numpy module; global_rng is the sequence of values that generator has *)
(* produced, and a call of it, made under the generator's lock, is one step. *)

\* lines 113-127
ThreadEnter(t) ==
    /\ threads[t].pc = "idle"
    /\ \E n \in 1 .. MaxSamples, b \in 1 .. MaxBatch :
         threads' = [threads EXCEPT ![t] =
                       [@ EXCEPT !.pc = "loop", !.nb_samples = n, !.batch_size = b,
                                 !.start = Len(global_rng)]]
    /\ UNCHANGED <<now, instrument, pricer, last, pc, lazy, bench,
                 global_rng, fetcher>>

\* lines 129-141: next(gen) takes batch_size values from the generator, the
\* pass keeps the first BatchLen of them
ThreadBatch(t) ==
    /\ threads[t].pc = "loop"
    /\ threads[t].count_draws < threads[t].nb_samples
    /\ \E batch \in SeqsOf(Draws, threads[t].batch_size) :
         LET G == SubSeq(batch, 1, BatchLen(threads[t]))
         IN /\ global_rng' = global_rng \o batch
            /\ threads' = [threads EXCEPT ![t] =
                  [@ EXCEPT !.sum_payoff = @ + SumSeq([i \in 1 .. Len(G) |->
                                 Payoff(threads[t].pricer,
                                        LazyTerminalPrice(threads[t].pricer, G[i]))]),
                            !.count_draws = @ + Len(G),
                            !.draws = @ \o G]]
    /\ UNCHANGED <<now, instrument, pricer, last, pc, lazy, bench, fetcher>>

\* line 143
ThreadReturn(t) ==
    /\ threads[t].pc = "loop"
    /\ ~(threads[t].count_draws < threads[t].nb_samples)
    /\ threads' = [threads EXCEPT ![t] =
                     [@ EXCEPT !.pc = "done",
                               !.value = Num(Mul(threads[t].sum_payoff
                                                   \div threads[t].nb_samples,
                                                 Discount(threads[t].pricer)))]]
    /\ UNCHANGED <<now, instrument, pricer, last, pc, lazy, bench,
                 global_rng, fetcher>>

\* the options the threads price
ThreadOptions == {o \in BenchOptions : o.volatility > 0}

ThreadsInit ==
    /\ now = StartNow
    /\ instrument = NoInstrument
    /\ pricer = NoPricer
    /\ last = [op |-> "none", args |-> <<>>, at |-> StartNow,
               status |-> "ok", exc |-> "", value |-> NaN]
    /\ pc = "idle"
    /\ lazy = NoLazy
    /\ bench = NoBench
    /\ global_rng = <<>>
    /\ \E o \in [Threads -> ThreadOptions] :
         threads = [t \in Threads |->
                      [pc |-> "idle",
                       pricer |-> PricerInit("MonteCarloPricerLazy", o[t], StartNow),
                       nb_samples |-> 0, batch_size |-> 0, start |-> 0,
                       sum_payoff |-> 0, count_draws |-> 0, draws |-> <<>>,
                       value |-> NaN]]
    /\ fetcher = NewFetcher

ThreadsNext ==
    \E t \in Threads :
        \/ ThreadEnter(t)
        \/ ThreadBatch(t)
        \/ ThreadReturn(t)

ThreadsSpec == ThreadsInit /\ [][ThreadsNext]_vars

----------------------------------------------------------------------------
(* Assignment to the fields of a constructed option: Option is declared with *)
(* @dataclass, not @dataclass(frozen=True), so its fields take any value     *)
(* assigned to them and __post_init__ does not run again.                    *)

Assignments ==
    [name : {"underlying_price"}, value : UnderlyingPrices]
    \cup [name : {"rate"}, value : Rates]
    \cup [name : {"volatility"}, value : Volatilities]
    \cup [name : {"maturity"}, value : MaturityTicks]
    \cup [name : {"strike"}, value : Strikes]
    \cup [name : {"dividend"}, value : Dividends]

\* instrument.<name> = value; a Pricer's self.instrument (Pricer.py line 19) is
\* the same object, the scalars it copied at its construction are not
SetAttr ==
    /\ pc = "idle"
    /\ instrument.cls # "None"
    /\ \E a \in Assignments :
         /\ instrument' = [instrument EXCEPT ![a.name] = a.value]
         /\ pricer' = IF pricer.cls = "None" THEN pricer
                      ELSE [pricer EXCEPT !.instrument = instrument']
         /\ last' = Called("setattr", a, Returned(NaN))
    /\ UNCHANGED <<now, pc, lazy, bench, global_rng, threads, fetcher>>

AssignNext == SetAttr

AssignSpec == BenchInit /\ [][AssignNext]_vars

----------------------------------------------------------------------------
(* Properties *)

IsBlackScholes == pricer.cls = "BlackScholesPricer"
IsLazy == pricer.cls = "MonteCarloPricerLazy"

\* the last call was calculate, on the pricer of the state, and it has ended
Calculated == last.op = "calculate" /\ last.status # "running"

\* C1: every constructed Pricer has a year fraction T > 0.
C1_PricerHasPositiveT == pricer.cls # "None" => pricer.T > 0

\* C2: constructing an Instrument with a negative volatility, underlying price
\* or dividend fails and leaves no Instrument; an Instrument whose construction
\* has just succeeded has all three >= 0.
C2_NegativeInputsRejected ==
    last.op = "Option" =>
        /\ (\/ last.args.volatility < 0
            \/ last.args.underlying_price < 0
            \/ last.args.dividend < 0)
              => (last.status = "error" /\ instrument.cls = "None")
        /\ last.status = "ok" =>
              /\ instrument.cls = last.args.cls
              /\ instrument.volatility >= 0
              /\ instrument.underlying_price >= 0
              /\ instrument.dividend >= 0

\* C2's case: a construction with a negative volatility and nothing else wrong
\* has failed.
C2_Witness ==
    /\ last.op = "Option"
    /\ last.args.volatility < 0
    /\ last.args.underlying_price >= 0
    /\ last.args.dividend >= 0
    /\ last.args.maturity.form = "datetime"
    /\ last.status = "error"
    /\ instrument.cls = "None"

\* the instant a maturity argument names
MaturityInstant(m) == IF m.form = "str" THEN Strptime(m.v) ELSE m.v

\* C3: in either input form, a maturity that is not strictly after the valuation
\* date makes the construction of the Instrument fail.
C3_MaturityValidatedInBothForms ==
    (/\ last.op = "Option"
     /\ last.args.maturity.v # BadDate
     /\ ~(MaturityInstant(last.args.maturity) > last.at))
        => last.status = "error"

\* values of S_T to try a payoff on
TerminalPrices == {0, 50 * Unit, 100 * Unit, 125 * Unit, 150 * Unit, 200 * Unit}

\* C4: constructing a Pricer on anything but a Call or a Put fails, and the
\* payoff of every constructed Pricer is max(S_T - K, 0) for a Call and
\* max(K - S_T, 0) for a Put.
C4_PayoffFollowsInstrument ==
    /\ (last.op = "Pricer" /\ ~IsCallOrPut(last.args.instrument))
          => last.status = "error"
    /\ pricer.cls # "None" =>
          /\ IsCallOrPut(pricer.instrument)
          /\ \A S_T \in TerminalPrices :
               Payoff(pricer, S_T) =
                  IF pricer.instrument.cls = "Call"
                  THEN Max(S_T - pricer.K, 0) ELSE Max(pricer.K - S_T, 0)

\* C4's case: a Pricer wraps a Put whose payoff pays, and a later construction
\* on an object that is no Option has failed.
C4_Witness ==
    /\ pricer.cls # "None"
    /\ pricer.instrument.cls = "Put"
    /\ pricer.K > 0
    /\ Payoff(pricer, 0) = pricer.K
    /\ last.op = "Pricer"
    /\ last.args.instrument.cls = "object"
    /\ last.status = "error"

\* d1 as the closed form states it, the dividend yield subtracted from r
ClaimedD1(p) ==
    ExtDiv(ExtAddNum(LogRatio(p),
                     Mul(p.r, p.T) - Mul(p.q, p.T)
                     + Mul(Mul(Scale \div 2, p.T), Mul(p.sigma, p.sigma))),
           SigmaSqrtT(p))

\* C5: where sigma sqrt(T) > 0, the d1 the closed-form calculate uses is
\* (ln(S/K) + (r - q + 0.5 sigma^2) T) / (sigma sqrt(T)).
C5_D1SubtractsDividend ==
    (IsBlackScholes /\ Calculated /\ last.status = "ok" /\ SigmaSqrtT(pricer) > 0)
        => D1(pricer) = ClaimedD1(pricer)

\* the pricer of the other option type on the same S, K, r, q, sigma, T
Twin(p) ==
    [p EXCEPT !.instrument.cls = IF @ = "Call" THEN "Put" ELSE "Call",
              !.payoff = IF @ = "call" THEN "put" ELSE "call"]

\* C6: whenever the closed form has returned a price for a maturity at least a
\* day away, the Call price minus the Put price on the same parameters is
\* S e^(-qT) - K e^(-rT).
C6_PutCallParity ==
    (IsBlackScholes /\ Calculated /\ last.status = "ok" /\ pricer.T > 0) =>
        LET other == BlackScholesCalculate(Twin(pricer)).value
            call == IF pricer.instrument.cls = "Call" THEN last.value ELSE other
            put == IF pricer.instrument.cls = "Call" THEN other ELSE last.value
        IN /\ IsNum(call)
           /\ IsNum(put)
           /\ call.v - put.v = Mul(pricer.S, Exp(-Mul(pricer.q, pricer.T)))
                               - Mul(pricer.K, Exp(-Mul(pricer.r, pricer.T)))

\* C7: with sigma sqrt(T) = 0 the closed-form calculate ends in an error, it
\* returns no value.
C7_ZeroDenominatorIsError ==
    (IsBlackScholes /\ Calculated /\ SigmaSqrtT(pricer) = 0)
        => last.status = "error"

\* C8: the lazy calculate called with a sample count n <= 0 ends in an error.
C8_LazyRejectsNonPositiveCount ==
    (IsLazy /\ Calculated /\ last.args.nb_samples <= 0)
        => last.status = "error"

\* C9: the classic, antithetic and QMC calculate called with a sample count
\* n <= 0 end in an error.
C9_NonPositiveCountIsError ==
    (/\ pricer.cls \in {"MonteCarloPricerClassic", "MonteCarloPricerAntithetic",
                        "MonteCarloPricerQMC"}
     /\ Calculated
     /\ last.args.nb_samples <= 0)
        => last.status = "error"

\* C10: the lazy calculate called with n > 0 and batch_size <= 0 ends in an
\* error, and no pass of its loop completes under such a batch_size.
C10_NonPositiveBatchRejected ==
    /\ (/\ IsLazy
        /\ Calculated
        /\ last.args.nb_samples > 0
        /\ last.args.batch_size <= 0)
          => last.status = "error"
    /\ ~(/\ pc = "loop"
         /\ lazy.nb_samples > 0
         /\ lazy.batch_size <= 0
         /\ lazy.batches > 0)

IsQMC == pricer.cls = "MonteCarloPricerQMC"

\* the quasi-random price: the variates entering S_T are norm.ppf of the Sobol
\* points U
SobolPrice(p, U) ==
    Mean([i \in 1 .. Len(U) |->
            Mul(Payoff(p, TerminalPrice(p, NormPpf(U[i]))), Discount(p))])

\* C11: the price QMC calculate returns for n > 0 is the one computed from
\* norm.ppf of its Sobol points; the pseudo-random normal draws do not enter it.
C11_QMCPriceFromSobolPoints ==
    (IsQMC /\ Calculated /\ last.status = "ok" /\ last.args.nb_samples > 0)
        => last.value = SobolPrice(pricer, last.args.U)

\* the lazy calculate has returned a value for n > 0 and batch_size > 0
LazyReturned ==
    /\ IsLazy
    /\ Calculated
    /\ last.status = "ok"
    /\ last.args.nb_samples > 0
    /\ last.args.batch_size > 0

\* equal up to the rounding of the last fixed-point digit: the n products by the
\* discount and the division by n each round by less than one unit
Near(a, b) == IsNum(a) /\ IsNum(b) /\ a.v - b.v \in -2 .. 2

\* C12: on the draws Z it consumed, in order, the lazy calculate called with
\* n > 0 has used exactly n draws and returned (sum of payoff(S_T(z_i))) / n
\* discounted by e^(-rT), whatever batch_size > 0 it was given, and that is the
\* classic estimate on the same draws up to rounding.
C12_LazyMatchesClassic ==
    LazyReturned =>
        /\ Len(last.args.Z) = last.args.nb_samples
        /\ last.value = DiscountedMean(pricer, last.args.Z)
        /\ Near(last.value, ClassicCalculate(pricer, last.args.Z).value)

\* C12's case: two draws of opposite sign were consumed in two batches of one
\* and a positive price came back.
C12_Witness ==
    /\ LazyReturned
    /\ last.args.nb_samples = 2
    /\ last.args.batch_size = 1
    /\ last.args.Z = <<-Unit, Unit>>
    /\ last.value.v > 0

\* the last call was benchmark, on the pricer of the state, and it has ended
Benchmarked == last.op = "benchmark" /\ last.status # "running"

\* C13: no step of a calculate or of a benchmark, failing ones included,
\* changes the Pricer (S, K, r, q, sigma, T, the payoff binding, the wrapped
\* instrument) or the instrument it wraps.
C13_CallsLeavePricerUnchanged ==
    [][pricer' = pricer /\ instrument' = instrument]_vars

\* C13's case: a benchmark with a negative sample count has failed in its first
\* calculate, and the Pricer is as its construction left it.
C13_Witness ==
    /\ Benchmarked
    /\ last.status = "error"
    /\ last.exc = "ValueError"
    /\ last.args.nb_samples < 0
    /\ last.args.calls = 1
    /\ pricer = PricerInit(pricer.cls, instrument, StartNow)

\* C14: a benchmark whose calculate calls cannot fail (sample count > 0) has
\* called calculate as many times as the iterations it was asked for (the
\* default when none is given), passing the sample count to a Monte Carlo
\* pricer and nothing to the closed form, and has returned the mean of the
\* prices of those calls rounded to 6 decimal places.
C14_BenchmarkRunsIterationsTimes ==
    (Benchmarked /\ last.args.nb_samples > 0) =>
        /\ last.status = "ok"
        /\ last.args.calls = Min(last.args.iterations.v, MaxPasses)
        /\ last.args.passed =
              IF IsBlackScholes THEN <<>> ELSE <<last.args.nb_samples>>
        /\ last.value = RoundMeanPrice(last.args.prices)

\* C15: the draws a calculate has consumed are those its own stream held when
\* it was called, the next nb_samples values after the generator's state at the
\* call, whatever another thread's calculate did in between.
C15_CallsDrawIndependently ==
    \A t \in Threads :
        threads[t].pc = "done" =>
            /\ Len(global_rng) >= threads[t].start + threads[t].nb_samples
            /\ threads[t].draws =
                  SubSeq(global_rng, threads[t].start + 1,
                         threads[t].start + threads[t].nb_samples)

\* C16: no step changes a field of a constructed Instrument.
C16_InstrumentImmutable ==
    [][instrument.cls # "None" => instrument' = instrument]_vars

\* C17: every constructed Instrument has strike > 0 and every constructed
\* Pricer has K > 0; a construction with strike <= 0 has not succeeded.
C17_StrikePositive ==
    /\ instrument.cls # "None" => instrument.strike > 0
    /\ pricer.cls # "None" => pricer.K > 0
    /\ (last.op = "Option" /\ last.args.strike <= 0) => last.status = "error"

\* a lazy calculate with n > 0 and batch_size > 0 is in its loop
LazyRunning == pc = "loop" /\ lazy.nb_samples > 0 /\ lazy.batch_size > 0

\* C18: while a lazy calculate with n > 0 and batch_size > 0 runs,
\* 0 <= count_draws <= n and the accumulator is the sum of the payoffs of the
\* draws taken so far; every pass of the loop takes exactly
\* min(batch_size, n - count_draws) draws; and the call returns with
\* count_draws = n, n draws consumed.
C18_LazyLoopInvariant ==
    /\ [](LazyRunning =>
            /\ 0 <= lazy.count_draws
            /\ lazy.count_draws <= lazy.nb_samples
            /\ Len(lazy.draws) = lazy.count_draws
            /\ lazy.sum_payoff =
                  SumSeq([i \in 1 .. Len(lazy.draws) |->
                            Payoff(pricer, LazyTerminalPrice(pricer, lazy.draws[i]))]))
    /\ [][(LazyRunning /\ pc' = "loop" /\ lazy' # lazy) =>
             lazy'.count_draws - lazy.count_draws
                = Min(lazy.batch_size, lazy.nb_samples - lazy.count_draws)]_vars
    /\ [][(LazyRunning /\ pc' = "idle") =>
             /\ lazy.count_draws = lazy.nb_samples
             /\ last'.status = "ok"
             /\ Len(last'.args.Z) = lazy.nb_samples]_vars

\* C18's case: one sample was asked for in batches of two, and the loop has
\* made its one pass, the batch cut to one draw.
C18_Witness ==
    /\ LazyRunning
    /\ lazy.nb_samples = 1
    /\ lazy.batch_size = 2
    /\ lazy.batches = 1
    /\ lazy.count_draws = 1

\* ceil(n / b) for b > 0
Ceil(n, b) == (n + b - 1) \div b

\* C19: a lazy calculate with n > 0 and batch_size > 0 returns; when it does
\* its loop has made exactly ceil(n / batch_size) passes; and every call
\* enters its loop with count_draws = 0 and an accumulator of 0.
C19_LazyTerminates ==
    /\ LazyRunning ~> (pc = "idle" /\ Calculated /\ last.status = "ok")
    /\ [][(LazyRunning /\ pc' = "idle") =>
             lazy.batches = Ceil(lazy.nb_samples, lazy.batch_size)]_vars
    /\ [][(pc = "idle" /\ pc' = "loop") =>
             /\ lazy'.count_draws = 0
             /\ lazy'.sum_payoff = 0
             /\ lazy'.batches = 0
             /\ lazy'.draws = <<>>]_vars

\* C19's case: after an earlier lazy call has returned, a call for two samples
\* in batches of one has made its two passes and is at its return.
C19_Witness ==
    /\ LazyRunning
    /\ lazy.nb_samples = 2
    /\ lazy.batch_size = 1
    /\ lazy.batches = 2
    /\ lazy.count_draws = 2

IsAntithetic == pricer.cls = "MonteCarloPricerAntithetic"

\* the draws of Z mirrored
Mirrored(Z) == [i \in 1 .. Len(Z) |-> -Z[i]]

\* e^(-rT) times the mean over i of (payoff(S_T(z_i)) + payoff(S_T(-z_i))) / 2
MirroredMean(p, Z) ==
    Num(Mul(Discount(p),
            SumSeq([i \in 1 .. Len(Z) |->
                      (Payoff(p, TerminalPrice(p, Z[i]))
                       + Payoff(p, TerminalPrice(p, -Z[i]))) \div 2])
              \div Len(Z)))

\* C20: the antithetic calculate called with n > 0 has used n draws Z, its
\* price is e^(-rT) times the mean of (payoff(S_T(z)) + payoff(S_T(-z))) / 2
\* over them, up to rounding, and it is the price the mirrored draws -Z give.
C20_AntitheticMirrors ==
    (IsAntithetic /\ Calculated /\ last.status = "ok" /\ last.args.nb_samples > 0) =>
        /\ Len(last.args.Z) = last.args.nb_samples
        /\ Near(last.value, MirroredMean(pricer, last.args.Z))
        /\ last.value = AntitheticCalculate(pricer, Mirrored(last.args.Z)).value

\* C20's case: a price came back for two equal draws, on a pricer whose payoff
\* differs between a draw and its mirror image.
C20_Witness ==
    /\ IsAntithetic
    /\ Calculated
    /\ last.status = "ok"
    /\ last.args.nb_samples = 2
    /\ last.args.Z = <<Unit, Unit>>
    /\ last.value.v > 0
    /\ Payoff(pricer, TerminalPrice(pricer, Unit))
         # Payoff(pricer, TerminalPrice(pricer, -Unit))

\* the most recent call was get_latest_rates
GotLatestRates == last.op = "get_latest_rates"

\* C21: get_latest_rates passes its "fetch_data() method must be first"
\* assertion only after a fetch_data call that succeeded: when fetch_data was
\* never called, or its most recent call raised "No data retrieved for the
\* specified period.", get_latest_rates is stopped by that assertion and does
\* not go on with _last_date unset.
C21_RatesOnlyAfterFetchSucceeded ==
    (GotLatestRates /\ fetcher.fetched # "ok") =>
        (last.status = "error" /\ last.exc = "AssertionError")

====
